---- MODULE Spec2Model ----
(***************************************************************************)
(* Model of the streaming progress engine of the research UI (App          *)
(* component): the React state of App, the EventSource handles it opens,   *)
(* the in-flight handleFormSubmit invocations and the pending timers.      *)
(* One action per handler: handleFormSubmit (and its continuation after    *)
(* the 300 ms reset wait, and the arrival of the fetch response), the      *)
(* deferred body of resetResearch, eventSource.onmessage per event kind,   *)
(* eventSource.onerror and the collapse timers.                            *)
(*                                                                         *)
(* The report text is a sequence of tokens: string concatenation is \o    *)
(* and the empty string, which JavaScript treats as falsy, is <<>>.        *)
(* Handlers are tasks of one event loop: each runs to completion, and a    *)
(* click, a message or a response may be served between any two of them,   *)
(* the two 300 ms timers of one submission included.                       *)
(***************************************************************************)
EXTENDS Integers, Sequences, FiniteSets, TLC

VARIABLES
  isResearching,        \* useState(false)
  status,               \* useState<ResearchStatusType | null>(null)
  output,               \* useState<ResearchOutput | null>(null)
  error,                \* useState<string | null>(null)
  isComplete,           \* useState(false)
  currentPhase,         \* useState<'search'|'enrichment'|'briefing'|'complete'|null>(null)
  isResetting,          \* useState(false)
  queries,              \* finalized queries, in completion order
  streamingQueries,     \* Record<key, {text, number, category, isComplete}>
  isQueriesExpanded,
  enrichmentCounts,     \* undefined, or a map category -> {total, enriched}
  briefingStatus,       \* map category -> boolean
  isEnrichmentExpanded,
  isBriefingExpanded,
  hasScrolledToStatus,
  isReportStreaming,
  eventSourceRef,       \* eventSourceRef.current: 0 (null) or an index of sources
  sources,              \* every EventSource created so far, in creation order
  timers300,            \* FIFO of the pending 300 ms timers
  fetching,             \* handleFormSubmit invocations awaiting the fetch response
  paired,               \* history: identities whose query_generating awaits its query_generated
  collapseTimers,       \* pending collapse timers, a count per section
  isGeneratingPdf,      \* useState(false)
  isCopied,             \* useState(false)
  copiedTimers,         \* pending 2 s timers that clear isCopied
  last                  \* the handler that ran last (history, read by the properties)

uiVars == <<isQueriesExpanded, isEnrichmentExpanded, isBriefingExpanded, hasScrolledToStatus>>
queryVars == <<queries, streamingQueries, paired>>
storeVars == <<enrichmentCounts, briefingStatus>>
reportVars == <<output, isReportStreaming>>
jobVars == <<isResearching, error, isComplete, isResetting>>
connVars == <<eventSourceRef, sources>>
callVars == <<timers300, fetching>>
exportVars == <<isGeneratingPdf, isCopied, copiedTimers>>
vars == <<isResearching, status, output, error, isComplete, currentPhase, isResetting,
          queries, streamingQueries, isQueriesExpanded, enrichmentCounts, briefingStatus,
          isEnrichmentExpanded, isBriefingExpanded, hasScrolledToStatus, isReportStreaming,
          eventSourceRef, sources, timers300, fetching, paired, collapseTimers,
          isGeneratingPdf, isCopied, copiedTimers, last>>
\* Everything but the history record last.
appVars == <<jobVars, status, reportVars, currentPhase, queryVars, storeVars, uiVars,
             connVars, callVars, collapseTimers, exportVars>>

(***************************************************************************)
(* Bounds of the model.                                                    *)
(***************************************************************************)
MaxJobs == 4          \* EventSources created plus submissions in flight
MaxQueries == 2       \* length of the finalized query sequence
MaxQueryNumber == 1   \* query numbers are 1..MaxQueryNumber
MaxReportLen == 2     \* tokens in the report buffer
MaxTimers == 1        \* pending collapse timers per section
MaxCount == 2         \* document counts carried by curation / enrichment events
MaxResets == 2        \* pending timers of resetResearch invoked on its own

(***************************************************************************)
(* Values.                                                                 *)
(***************************************************************************)
Null == "null"
Categories == {"company", "industry", "financial", "news"}
Sections == {"queries", "enrichment", "briefings"}
NullStatus == [step |-> Null, message |-> <<>>]
NullOutput == [present |-> FALSE, report |-> <<>>]
EmptyMap == [x \in {} |-> TRUE]
Absent == ""          \* a string field that is missing from the payload (falsy)
AbsentNum == -1       \* a numeric field that is missing from the payload
UndefinedCounts == [defined |-> FALSE, m |-> EmptyMap]
InitialBriefingStatus == [c \in Categories |-> FALSE]
NoTimers == [s \in Sections |-> 0]
\* A handleFormSubmit invocation: the hasScrolledToStatus of the render whose
\* closure it is, and (history) how many EventSources existed when it was invoked.
Calls == [seen : BOOLEAN, born : 0..MaxJobs]
NoFetch == [c \in Calls |-> 0]

\* last: the handler (op), the EventSource it ran for (h), the event kind (type),
\* the payload field the handler read (arg), whether it scrolled the window and
\* the collapse timers it armed.
Idle == [op |-> "init", h |-> 0, type |-> Null, arg |-> Null, scrolled |-> FALSE, sched |-> {}]
Did(op, h, type, arg, scrolled, sched) ==
  [op |-> op, h |-> h, type |-> type, arg |-> arg, scrolled |-> scrolled, sched |-> sched]

PhaseRank(p) ==
  CASE p = Null -> 0
    [] p = "search" -> 1
    [] p = "enrichment" -> 2
    [] p = "briefing" -> 3
    [] p = "complete" -> 4

\* The key of a streaming query, `${data.category}_${data.query_number}`.
QueryKey(category, number) == <<category, "_", number>>

\* The finalized records of an identity.
Occurrences(category, number) ==
  {i \in 1..Len(queries) : queries[i].category = category /\ queries[i].number = number}
InQueries(category, number) == Occurrences(category, number) # {}

\* {...prev, [k]: v}
Put(f, k, v) == [x \in DOMAIN f \cup {k} |-> IF x = k THEN v ELSE f[x]]
\* const updated = {...prev}; delete updated[k]
Delete(f, k) == [x \in DOMAIN f \ {k} |-> f[x]]

OpenSources == {h \in 1..Len(sources) : sources[h].open}
RECURSIVE Total(_, _)
Total(f, S) ==
  IF S = {} THEN 0 ELSE LET c == CHOOSE x \in S : TRUE IN f[c] + Total(f, S \ {c})
InFlight ==
  Cardinality({i \in 1..Len(timers300) : timers300[i].kind = "resume"})
    + Total(fetching, Calls)

\* eventSource.close()
Close(h) == [sources EXCEPT ![h].open = FALSE]

Init ==
  /\ isResearching = FALSE
  /\ status = NullStatus
  /\ output = NullOutput
  /\ error = Null
  /\ isComplete = FALSE
  /\ currentPhase = Null
  /\ isResetting = FALSE
  /\ queries = <<>>
  /\ streamingQueries = EmptyMap
  /\ isQueriesExpanded = TRUE
  /\ enrichmentCounts = UndefinedCounts
  /\ briefingStatus = InitialBriefingStatus
  /\ isEnrichmentExpanded = TRUE
  /\ isBriefingExpanded = TRUE
  /\ hasScrolledToStatus = FALSE
  /\ isReportStreaming = FALSE
  /\ eventSourceRef = 0
  /\ sources = <<>>
  /\ timers300 = <<>>
  /\ fetching = NoFetch
  /\ paired = {}
  /\ collapseTimers = NoTimers
  /\ isGeneratingPdf = FALSE
  /\ isCopied = FALSE
  /\ copiedTimers = 0
  /\ last = Idle

(***************************************************************************)
(* Job submission: handleFormSubmit, resetResearch, streamResults.         *)
(***************************************************************************)

\* The form is rendered with isResearching and offers no submission while it is set.
FormEnabled == ~isResearching

\* The invocation of handleFormSubmit by the current render.
ThisCall == [seen |-> hasScrolledToStatus, born |-> Len(sources)]

\* The part of handleFormSubmit from "Clear any existing SSE connection" up to
\* the fetch call: it runs without interruption.
StartRequest(call) ==
  /\ sources' = IF eventSourceRef # 0 THEN Close(eventSourceRef) ELSE sources
  /\ eventSourceRef' = 0
  /\ isResearching' = TRUE
  /\ status' = [step |-> "Processing", message |-> <<"Starting research...">>]
  /\ fetching' = [fetching EXCEPT ![call] = @ + 1]

\* handleFormSubmit when research is not complete: no reset, no wait.
SubmitDirect ==
  /\ FormEnabled
  /\ ~isComplete
  /\ InFlight + Len(sources) < MaxJobs
  /\ error' = Null
  /\ StartRequest(ThisCall)
  /\ last' = Did("submit", 0, Null, Null, FALSE, {})
  /\ UNCHANGED <<output, isComplete, currentPhase, isResetting, queryVars, storeVars,
                 uiVars, isReportStreaming, timers300, collapseTimers>>
  /\ UNCHANGED exportVars

\* handleFormSubmit when research is complete: resetResearch() sets isResetting
\* and arms its 300 ms timer, then the handler itself waits 300 ms.
SubmitAfterComplete ==
  /\ FormEnabled
  /\ isComplete
  /\ InFlight + Len(sources) < MaxJobs
  /\ error' = Null
  /\ isResetting' = TRUE
  /\ timers300' = timers300 \o <<[kind |-> "reset", call |-> ThisCall],
                                 [kind |-> "resume", call |-> ThisCall]>>
  /\ last' = Did("submit", 0, Null, Null, FALSE, {})
  /\ UNCHANGED <<isResearching, status, output, isComplete, currentPhase, queryVars,
                 storeVars, uiVars, isReportStreaming, connVars, fetching, collapseTimers>>
  /\ UNCHANGED exportVars

\* resetResearch() on its own: it sets isResetting and arms its 300 ms timer.
ResetResearch ==
  /\ Len(timers300) < MaxResets
  /\ isResetting' = TRUE
  /\ timers300' = Append(timers300, [kind |-> "reset", call |-> ThisCall])
  /\ last' = Did("resetResearch", 0, Null, Null, FALSE, {})
  /\ UNCHANGED <<isResearching, status, output, error, isComplete, currentPhase,
                 queryVars, storeVars, uiVars, isReportStreaming, connVars, fetching,
                 collapseTimers>>
  /\ UNCHANGED exportVars

\* Mutant of ResetState: the queries section is toggled, not expanded.
ResetStateToggles ==
  /\ status' = NullStatus
  /\ output' = NullOutput
  /\ error' = Null
  /\ isComplete' = FALSE
  /\ currentPhase' = Null
  /\ queries' = <<>>
  /\ streamingQueries' = EmptyMap
  /\ enrichmentCounts' = UndefinedCounts
  /\ briefingStatus' = InitialBriefingStatus
  /\ isQueriesExpanded' = ~isQueriesExpanded
  /\ isEnrichmentExpanded' = TRUE
  /\ isBriefingExpanded' = TRUE
  /\ hasScrolledToStatus' = FALSE
  /\ isReportStreaming' = FALSE
  /\ isResetting' = FALSE

\* The timer callback of resetResearch.
ResetState ==
  /\ status' = NullStatus
  /\ output' = NullOutput
  /\ error' = Null
  /\ isComplete' = FALSE
  /\ currentPhase' = Null
  /\ queries' = <<>>
  /\ streamingQueries' = EmptyMap
  /\ enrichmentCounts' = UndefinedCounts
  /\ briefingStatus' = InitialBriefingStatus
  /\ isQueriesExpanded' = TRUE
  /\ isEnrichmentExpanded' = TRUE
  /\ isBriefingExpanded' = TRUE
  /\ hasScrolledToStatus' = FALSE
  /\ isReportStreaming' = FALSE
  /\ isResetting' = FALSE

ResetTimerFire ==
  /\ timers300 # <<>>
  /\ Head(timers300).kind = "reset"
  /\ ResetState
  /\ timers300' = Tail(timers300)
  /\ last' = Did("reset", 0, Null, Head(timers300).call.born, FALSE, {})
  /\ UNCHANGED <<isResearching, connVars, fetching, paired, collapseTimers>>
  /\ UNCHANGED exportVars

\* handleFormSubmit resumes after its 300 ms wait.
ResumeSubmit ==
  /\ timers300 # <<>>
  /\ Head(timers300).kind = "resume"
  /\ StartRequest(Head(timers300).call)
  /\ timers300' = Tail(timers300)
  /\ last' = Did("resume", 0, Null, Null, FALSE, {})
  /\ UNCHANGED <<output, error, isComplete, currentPhase, isResetting, queryVars,
                 storeVars, uiVars, isReportStreaming, collapseTimers>>
  /\ UNCHANGED exportVars

\* Mutant of StreamResults: the new EventSource is not stored in the ref.
StreamResultsUnreferenced(call) ==
  /\ sources' = Append(sources, [open |-> TRUE, seenScrolled |-> call.seen,
                                  born |-> call.born])
  /\ eventSourceRef' = eventSourceRef

\* streamResults(jobId): a new EventSource, stored in eventSourceRef.current. Its
\* handlers close over the render that created handleFormSubmit, hence over
\* that render's hasScrolledToStatus.
StreamResults(call) ==
  /\ sources' = Append(sources, [open |-> TRUE, seenScrolled |-> call.seen,
                                  born |-> call.born])
  /\ eventSourceRef' = Len(sources) + 1

\* The response arrives with a job_id.
FetchOk(call) ==
  /\ fetching[call] > 0
  /\ fetching' = [fetching EXCEPT ![call] = @ - 1]
  /\ StreamResults(call)
  /\ last' = Did("response", Len(sources) + 1, "ok", Null, FALSE, {})
  /\ UNCHANGED <<isResearching, status, output, error, isComplete, currentPhase,
                 isResetting, queryVars, storeVars, uiVars, isReportStreaming,
                 timers300, collapseTimers>>
  /\ UNCHANGED exportVars

FailureMessage(reason) ==
  CASE reason = "http" -> "HTTP error! status"
    [] reason = "nojob" -> "No job ID received"
    [] reason = "network" -> "Failed to fetch"

\* Mutant of FetchFail: the failure leaves isResearching set.
FetchFailStaysBusy(call, reason) ==
  /\ fetching[call] > 0
  /\ fetching' = [fetching EXCEPT ![call] = @ - 1]
  /\ error' = FailureMessage(reason)
  /\ last' = Did("response", 0, reason, Null, FALSE, {})
  /\ UNCHANGED <<isResearching, status, output, isComplete, currentPhase, isResetting,
                 queryVars, storeVars, uiVars, isReportStreaming, connVars, timers300,
                 collapseTimers>>
  /\ UNCHANGED exportVars

\* The response is not ok, carries no job_id, or the request throws.
FetchFail(call, reason) ==
  /\ fetching[call] > 0
  /\ fetching' = [fetching EXCEPT ![call] = @ - 1]
  /\ error' = FailureMessage(reason)
  /\ isResearching' = FALSE
  /\ last' = Did("response", 0, reason, Null, FALSE, {})
  /\ UNCHANGED <<status, output, isComplete, currentPhase, isResetting, queryVars,
                 storeVars, uiVars, isReportStreaming, connVars, timers300, collapseTimers>>
  /\ UNCHANGED exportVars

\* Mutant of OnTransportError: the EventSource is left to reconnect.
OnTransportErrorReconnects(h) ==
  /\ h \in OpenSources
  /\ error' = "Connection lost or server error"
  /\ isResearching' = FALSE
  /\ last' = Did("onerror", h, Null, Null, FALSE, {})
  /\ UNCHANGED <<status, output, isComplete, currentPhase, isResetting, queryVars,
                 storeVars, uiVars, isReportStreaming, connVars, callVars,
                 collapseTimers>>
  /\ UNCHANGED exportVars

\* eventSource.onerror
OnTransportError(h) ==
  /\ h \in OpenSources
  /\ error' = "Connection lost or server error"
  /\ isResearching' = FALSE
  /\ sources' = Close(h)
  /\ last' = Did("onerror", h, Null, Null, FALSE, {})
  /\ UNCHANGED <<status, output, isComplete, currentPhase, isResetting, queryVars,
                 storeVars, uiVars, isReportStreaming, eventSourceRef, callVars,
                 collapseTimers>>
  /\ UNCHANGED exportVars

\* The collapse timers armed by curation, briefing_start and briefing_complete.
CollapseTimerFire(s) ==
  /\ collapseTimers[s] > 0
  /\ collapseTimers' = [collapseTimers EXCEPT ![s] = @ - 1]
  /\ isQueriesExpanded' = IF s = "queries" THEN FALSE ELSE isQueriesExpanded
  /\ isEnrichmentExpanded' = IF s = "enrichment" THEN FALSE ELSE isEnrichmentExpanded
  /\ isBriefingExpanded' = IF s = "briefings" THEN FALSE ELSE isBriefingExpanded
  /\ last' = Did("collapse", 0, s, Null, FALSE, {})
  /\ UNCHANGED <<jobVars, status, reportVars, currentPhase, queryVars, storeVars,
                 hasScrolledToStatus, connVars, callVars>>
  /\ UNCHANGED exportVars

(***************************************************************************)
(* eventSource.onmessage, one action per branch of the handler.  A closed  *)
(* EventSource dispatches no event, so every branch requires the source to *)
(* be open.                                                                *)
(***************************************************************************)

SearchSteps == {"grounding", "financial_analyst", "news_scanner", "industry_analyst",
                "company_analyst", "collector"}
EnrichmentSteps == {"curator", "enricher"}

\* stepMap is an object literal: besides its own keys, stepMap[nodeName] finds
\* the members it inherits from Object.prototype, whose values are functions
\* (an object for __proto__), all truthy.
InheritedKeys == {"constructor", "toString", "valueOf", "hasOwnProperty", "__proto__"}
\* The value read under an inherited key: not a label and not the identifier.
InheritedValue == "[object]"

\* getStepName: stepMap[nodeName] || nodeName
getStepName(nodeName) ==
  CASE nodeName \in SearchSteps -> "Search"
    [] nodeName \in EnrichmentSteps -> "Enriching"
    [] nodeName = "briefing" -> "Briefing"
    [] nodeName = "editor" -> "Finalizing"
    [] nodeName \in InheritedKeys -> InheritedValue
    [] OTHER -> nodeName

\* The phase a progress step sets ("Update phase based on step").
StepPhase(step, phase) ==
  CASE step \in SearchSteps -> "search"
    [] step \in EnrichmentSteps -> "enrichment"
    [] step = "briefing" -> "briefing"
    [] OTHER -> phase

\* scrollToStatus, as closed over by the handlers of source h: it scrolls when
\* the hasScrolledToStatus of that closure is false (statusRef is attached).
Scrolls(h) == ~sources[h].seenScrolled
ScrollToStatus(h) ==
  hasScrolledToStatus' = IF Scrolls(h) THEN TRUE ELSE hasScrolledToStatus

\* setTimeout(() => setIs<Section>Expanded(false), delay)
Schedule(s) ==
  /\ collapseTimers[s] < MaxTimers
  /\ collapseTimers' = [collapseTimers EXCEPT ![s] = @ + 1]

\* data.type === 'progress' && data.step
OnProgress(h, step) ==
  /\ h \in OpenSources
  /\ step # Absent
  /\ status' = [step |-> getStepName(step), message |-> <<"Processing ", step, "...">>]
  /\ currentPhase' = StepPhase(step, currentPhase)
  /\ ScrollToStatus(h)
  /\ last' = Did("message", h, "progress", step, Scrolls(h), {})
  /\ UNCHANGED <<jobVars, reportVars, queryVars, storeVars, isQueriesExpanded,
                 isEnrichmentExpanded, isBriefingExpanded, connVars, callVars,
                 collapseTimers>>
  /\ UNCHANGED exportVars

OnQueryGenerating(h, category, number, text) ==
  /\ h \in OpenSources
  /\ currentPhase' = "search"
  /\ status' = [step |-> "Search", message |-> <<"Query ", number, ": ", text>>]
  /\ streamingQueries' = Put(streamingQueries, QueryKey(category, number),
                             [text |-> text, number |-> number, category |-> category,
                              isComplete |-> FALSE])
  /\ paired' = IF QueryKey(category, number) \in DOMAIN streamingQueries
                  \/ InQueries(category, number)
               THEN paired
               ELSE paired \cup {QueryKey(category, number)}
  /\ last' = Did("message", h, "query_generating", QueryKey(category, number), FALSE, {})
  /\ UNCHANGED <<jobVars, reportVars, queries, storeVars, uiVars, connVars, callVars,
                 collapseTimers>>
  /\ UNCHANGED exportVars

\* Mutant of OnQueryGenerated: the streaming entry is not removed.
OnQueryGeneratedKeepsEntry(h, category, number, text) ==
  /\ h \in OpenSources
  /\ Len(queries) < MaxQueries
  /\ currentPhase' = "search"
  /\ status' = [step |-> "Search", message |-> <<"Generated: ", text>>]
  /\ queries' = Append(queries, [text |-> text, number |-> number, category |-> category])
  /\ streamingQueries' = streamingQueries
  /\ ScrollToStatus(h)
  /\ paired' = paired \ {QueryKey(category, number)}
  /\ last' = Did("message", h, "query_generated",
                 [key |-> QueryKey(category, number),
                  paired |-> QueryKey(category, number) \in paired], Scrolls(h), {})
  /\ UNCHANGED <<jobVars, reportVars, storeVars, isQueriesExpanded, isEnrichmentExpanded,
                 isBriefingExpanded, connVars, callVars, collapseTimers>>
  /\ UNCHANGED exportVars

\* Mutant of OnQueryGenerated: the record is put in front of the sequence.
OnQueryGeneratedPrepends(h, category, number, text) ==
  /\ h \in OpenSources
  /\ Len(queries) < MaxQueries
  /\ currentPhase' = "search"
  /\ status' = [step |-> "Search", message |-> <<"Generated: ", text>>]
  /\ queries' = <<[text |-> text, number |-> number, category |-> category]>> \o queries
  /\ streamingQueries' = Delete(streamingQueries, QueryKey(category, number))
  /\ ScrollToStatus(h)
  /\ paired' = paired \ {QueryKey(category, number)}
  /\ last' = Did("message", h, "query_generated",
                 [key |-> QueryKey(category, number),
                  paired |-> QueryKey(category, number) \in paired], Scrolls(h), {})
  /\ UNCHANGED <<jobVars, reportVars, storeVars, isQueriesExpanded, isEnrichmentExpanded,
                 isBriefingExpanded, connVars, callVars, collapseTimers>>
  /\ UNCHANGED exportVars

OnQueryGenerated(h, category, number, text) ==
  /\ h \in OpenSources
  /\ Len(queries) < MaxQueries
  /\ currentPhase' = "search"
  /\ status' = [step |-> "Search", message |-> <<"Generated: ", text>>]
  /\ queries' = Append(queries, [text |-> text, number |-> number, category |-> category])
  /\ streamingQueries' = Delete(streamingQueries, QueryKey(category, number))
  /\ ScrollToStatus(h)
  /\ paired' = paired \ {QueryKey(category, number)}
  /\ last' = Did("message", h, "query_generated",
                 [key |-> QueryKey(category, number),
                  paired |-> QueryKey(category, number) \in paired], Scrolls(h), {})
  /\ UNCHANGED <<jobVars, reportVars, storeVars, isQueriesExpanded, isEnrichmentExpanded,
                 isBriefingExpanded, connVars, callVars, collapseTimers>>
  /\ UNCHANGED exportVars

\* research_init and crawl_start differ in the status they show only.
OnSearchNotice(h, type) ==
  /\ h \in OpenSources
  /\ type \in {"research_init", "crawl_start"}
  /\ currentPhase' = "search"
  /\ status' = IF type = "research_init"
               THEN [step |-> "Initializing", message |-> <<"Initiating research">>]
               ELSE [step |-> "Website Crawl", message |-> <<"Crawling company website">>]
  /\ last' = Did("message", h, type, Null, FALSE, {})
  /\ UNCHANGED <<jobVars, reportVars, queryVars, storeVars, uiVars, connVars, callVars,
                 collapseTimers>>
  /\ UNCHANGED exportVars

\* Mutant of CurationCounts: the enriched count of an existing entry is kept.
CurationCountsKeepsEnriched(prev, category, total) ==
  [defined |-> TRUE,
   m |-> Put(prev.m, category,
             [total |-> IF total = AbsentNum THEN 0 ELSE total,
              enriched |-> IF category \in DOMAIN prev.m
                           THEN prev.m[category].enriched ELSE 0])]

\* {...prev, [category]: {total: data.total || 0, enriched: 0}}
CurationCounts(prev, category, total) ==
  [defined |-> TRUE,
   m |-> Put(prev.m, category,
             [total |-> IF total = AbsentNum THEN 0 ELSE total, enriched |-> 0])]

OnCuration(h, category, total) ==
  /\ h \in OpenSources
  /\ currentPhase' = "enrichment"
  /\ status' = [step |-> "Curating data", message |-> <<"Curating ", category, " documents">>]
  /\ enrichmentCounts' = IF category # Absent
                         THEN CurationCounts(enrichmentCounts, category, total)
                         ELSE enrichmentCounts
  /\ Schedule("queries")
  /\ ScrollToStatus(h)
  /\ last' = Did("message", h, "curation",
                 [category |-> category, total |-> total, old |-> enrichmentCounts],
                 Scrolls(h), {"queries"})
  /\ UNCHANGED <<jobVars, reportVars, queryVars, briefingStatus, isQueriesExpanded,
                 isEnrichmentExpanded, isBriefingExpanded, connVars, callVars>>
  /\ UNCHANGED exportVars

\* prev[category]?.total || data.total || 0
EnrichmentTotal(prev, category, total) ==
  IF category \in DOMAIN prev.m /\ prev.m[category].total # 0
  THEN prev.m[category].total
  ELSE IF total = AbsentNum THEN 0 ELSE total

\* if (!prev) return prev; return {...prev, [category]: {total: ..., enriched: data.enriched}}
EnrichmentCounts(prev, category, enriched, total) ==
  IF ~prev.defined
  THEN prev
  ELSE [defined |-> TRUE,
        m |-> Put(prev.m, category,
                  [total |-> EnrichmentTotal(prev, category, total),
                   enriched |-> enriched])]

OnEnrichment(h, category, enriched, total) ==
  /\ h \in OpenSources
  /\ currentPhase' = "enrichment"
  /\ status' = [step |-> "Enriching",
                message |-> <<"Enriching documents with additional content">>]
  /\ enrichmentCounts' = IF category # Absent /\ enriched # AbsentNum
                         THEN EnrichmentCounts(enrichmentCounts, category, enriched, total)
                         ELSE enrichmentCounts
  /\ last' = Did("message", h, "enrichment",
                 [category |-> category, enriched |-> enriched, total |-> total,
                  old |-> enrichmentCounts], FALSE, {})
  /\ UNCHANGED <<jobVars, reportVars, queryVars, briefingStatus, uiVars, connVars,
                 callVars, collapseTimers>>
  /\ UNCHANGED exportVars

OnBriefingStart(h, category) ==
  /\ h \in OpenSources
  /\ currentPhase' = "briefing"
  /\ status' = [step |-> "Generating briefings",
                message |-> <<"Creating ", category, " briefing">>]
  /\ Schedule("enrichment")
  /\ ScrollToStatus(h)
  /\ last' = Did("message", h, "briefing_start", category, Scrolls(h), {"enrichment"})
  /\ UNCHANGED <<jobVars, reportVars, queryVars, storeVars, isQueriesExpanded,
                 isEnrichmentExpanded, isBriefingExpanded, connVars, callVars>>
  /\ UNCHANGED exportVars

\* Mutant of MarkBriefing: the flag of the category is toggled.
MarkBriefingToggles(prev, category) ==
  Put(prev, category, IF category \in DOMAIN prev THEN ~prev[category] ELSE TRUE)

\* {...prev, [data.category]: true}
MarkBriefing(prev, category) == Put(prev, category, TRUE)

\* Object.values(newBriefingStatus).every(status => status)
AllBriefingsComplete(b) == \A c \in DOMAIN b : b[c]

OnBriefingComplete(h, category) ==
  /\ h \in OpenSources
  /\ currentPhase' = "briefing"
  /\ status' = [step |-> "Briefing complete",
                message |-> <<category, " briefing generated">>]
  /\ IF category # Absent
     THEN /\ briefingStatus' = MarkBriefing(briefingStatus, category)
          /\ IF AllBriefingsComplete(briefingStatus')
             THEN /\ Schedule("briefings")
                  /\ last' = Did("message", h, "briefing_complete",
                                 [category |-> category, old |-> briefingStatus],
                                 FALSE, {"briefings"})
             ELSE /\ UNCHANGED collapseTimers
                  /\ last' = Did("message", h, "briefing_complete",
                                 [category |-> category, old |-> briefingStatus],
                                 FALSE, {})
     ELSE /\ UNCHANGED <<briefingStatus, collapseTimers>>
          /\ last' = Did("message", h, "briefing_complete",
                                 [category |-> category, old |-> briefingStatus],
                                 FALSE, {})
  /\ UNCHANGED <<jobVars, reportVars, queryVars, enrichmentCounts, uiVars, connVars,
                 callVars>>
  /\ UNCHANGED exportVars

OnReportCompilation(h) ==
  /\ h \in OpenSources
  /\ currentPhase' = "briefing"
  /\ status' = [step |-> "Finalizing report", message |-> <<"Compiling final report">>]
  /\ last' = Did("message", h, "report_compilation", Null, FALSE, {})
  /\ UNCHANGED <<jobVars, reportVars, queryVars, storeVars, uiVars, connVars, callVars,
                 collapseTimers>>
  /\ UNCHANGED exportVars

\* prev?.details?.report || ''
CurrentReport(prev) == IF prev.present THEN prev.report ELSE <<>>

\* data.type === 'report_chunk' && data.chunk
\* Mutant of OnReportChunk: the chunk is put in front of the buffer.
OnReportChunkPrepends(h, chunk) ==
  /\ h \in OpenSources
  /\ chunk # <<>>
  /\ Len(CurrentReport(output)) + Len(chunk) <= MaxReportLen
  /\ isReportStreaming' = TRUE
  /\ output' = [present |-> TRUE, report |-> chunk \o CurrentReport(output)]
  /\ status' = [step |-> "Finalizing report", message |-> <<"Generating final report...">>]
  /\ last' = Did("message", h, "report_chunk", chunk, FALSE, {})
  /\ UNCHANGED <<jobVars, currentPhase, queryVars, storeVars, uiVars, connVars, callVars,
                 collapseTimers>>
  /\ UNCHANGED exportVars

OnReportChunk(h, chunk) ==
  /\ h \in OpenSources
  /\ chunk # <<>>
  /\ Len(CurrentReport(output)) + Len(chunk) <= MaxReportLen
  /\ isReportStreaming' = TRUE
  /\ output' = [present |-> TRUE, report |-> CurrentReport(output) \o chunk]
  /\ status' = [step |-> "Finalizing report", message |-> <<"Generating final report...">>]
  /\ last' = Did("message", h, "report_chunk", chunk, FALSE, {})
  /\ UNCHANGED <<jobVars, currentPhase, queryVars, storeVars, uiVars, connVars, callVars,
                 collapseTimers>>
  /\ UNCHANGED exportVars

\* Mutant of OnComplete: the final text is appended to the streamed text.
OnCompleteAppends(h, report) ==
  /\ h \in OpenSources
  /\ report # <<>>
  /\ isReportStreaming' = FALSE
  /\ output' = [present |-> TRUE, report |-> CurrentReport(output) \o report]
  /\ status' = [step |-> "Complete", message |-> <<"Research completed successfully">>]
  /\ isComplete' = TRUE
  /\ isResearching' = FALSE
  /\ sources' = Close(h)
  /\ last' = Did("message", h, "complete",
                 [report |-> report, old |-> CurrentReport(output)], FALSE, {})
  /\ UNCHANGED <<error, isResetting, currentPhase, queryVars, storeVars, uiVars,
                 eventSourceRef, callVars, collapseTimers>>
  /\ UNCHANGED exportVars

\* data.type === 'complete' && data.report
OnComplete(h, report) ==
  /\ h \in OpenSources
  /\ report # <<>>
  /\ isReportStreaming' = FALSE
  /\ output' = [present |-> TRUE, report |-> report]
  /\ status' = [step |-> "Complete", message |-> <<"Research completed successfully">>]
  /\ isComplete' = TRUE
  /\ isResearching' = FALSE
  /\ sources' = Close(h)
  /\ last' = Did("message", h, "complete",
                 [report |-> report, old |-> CurrentReport(output)], FALSE, {})
  /\ UNCHANGED <<error, isResetting, currentPhase, queryVars, storeVars, uiVars,
                 eventSourceRef, callVars, collapseTimers>>
  /\ UNCHANGED exportVars

\* data.type === 'error'
\* Mutant of OnError: the error event also clears the status line.
OnErrorClearsStatus(h, message) ==
  /\ h \in OpenSources
  /\ error' = message
  /\ isResearching' = FALSE
  /\ sources' = Close(h)
  /\ status' = NullStatus
  /\ last' = Did("message", h, "error", message, FALSE, {})
  /\ UNCHANGED <<reportVars, isComplete, isResetting, currentPhase, queryVars,
                 storeVars, uiVars, eventSourceRef, callVars, collapseTimers>>
  /\ UNCHANGED exportVars

OnError(h, message) ==
  /\ h \in OpenSources
  /\ error' = message
  /\ isResearching' = FALSE
  /\ sources' = Close(h)
  /\ last' = Did("message", h, "error", message, FALSE, {})
  /\ UNCHANGED <<status, reportVars, isComplete, isResetting, currentPhase, queryVars,
                 storeVars, uiVars, eventSourceRef, callVars, collapseTimers>>
  /\ UNCHANGED exportVars

\* A decoded message that no branch of the handler accepts: a type outside the
\* known kinds, a progress without step, a report_chunk without chunk, a
\* complete without report.
Unhandled == {"unknown", "progress", "report_chunk", "complete"}
OnUnhandled(h, type) ==
  /\ h \in OpenSources
  /\ type \in Unhandled
  /\ last' = Did("message", h, type,
                 IF type = "complete"
                 THEN [report |-> <<>>, old |-> CurrentReport(output)]
                 ELSE IF type = "report_chunk" THEN <<>> ELSE Null, FALSE, {})
  /\ UNCHANGED <<jobVars, status, reportVars, currentPhase, queryVars, storeVars, uiVars,
                 connVars, callVars, collapseTimers>>
  /\ UNCHANGED exportVars

\* Mutant of OnUndecodable: the parse failure ends the stream.
OnUndecodableCloses(h) ==
  /\ h \in OpenSources
  /\ sources' = Close(h)
  /\ last' = Did("message", h, "undecodable", Null, FALSE, {})
  /\ UNCHANGED <<jobVars, status, reportVars, currentPhase, queryVars, storeVars, uiVars,
                 eventSourceRef, callVars, collapseTimers>>
  /\ UNCHANGED exportVars

\* JSON.parse throws: the catch block logs and returns.
OnUndecodable(h) ==
  /\ h \in OpenSources
  /\ last' = Did("message", h, "undecodable", Null, FALSE, {})
  /\ UNCHANGED <<jobVars, status, reportVars, currentPhase, queryVars, storeVars, uiVars,
                 connVars, callVars, collapseTimers>>
  /\ UNCHANGED exportVars

(***************************************************************************)
(* The exports of the report: handleGeneratePdf, handleCopyToClipboard,    *)
(* handleDownloadMarkdown.  last.type names the export, last.arg its       *)
(* outcome.                                                                *)
(***************************************************************************)

\* What the exports leave alone: everything but error and their own flags.
streamVars == <<isResearching, isComplete, isResetting, status, reportVars, currentPhase,
                queryVars, storeVars, uiVars, connVars, callVars, collapseTimers>>

\* output?.details?.report is truthy
HasReport == output.present /\ output.report # <<>>

\* handleGeneratePdf up to the fetch call.
GeneratePdf ==
  /\ output.present
  /\ ~isGeneratingPdf
  /\ isGeneratingPdf' = TRUE
  /\ last' = Did("export", 0, "pdf", "start", FALSE, {})
  /\ UNCHANGED <<streamVars, error, isCopied, copiedTimers>>

\* The PDF arrives and is handed to the browser as a download.
PdfOk ==
  /\ isGeneratingPdf
  /\ isGeneratingPdf' = FALSE
  /\ last' = Did("export", 0, "pdf", "ok", FALSE, {})
  /\ UNCHANGED <<streamVars, error, isCopied, copiedTimers>>

PdfFailureMessage(reason) ==
  CASE reason = "http" -> "Failed to generate PDF"
    [] reason = "network" -> "Failed to fetch"

\* Mutant of PdfFail: the failure also ends the research.
PdfFailStopsResearch(reason) ==
  /\ isGeneratingPdf
  /\ error' = PdfFailureMessage(reason)
  /\ isGeneratingPdf' = FALSE
  /\ isResearching' = FALSE
  /\ last' = Did("export", 0, "pdf", "fail", FALSE, {})
  /\ UNCHANGED <<isComplete, isResetting, status, reportVars, currentPhase, queryVars,
                 storeVars, uiVars, connVars, callVars, collapseTimers, isCopied,
                 copiedTimers>>

\* The response is not ok, or the request or the download throws.
PdfFail(reason) ==
  /\ isGeneratingPdf
  /\ error' = PdfFailureMessage(reason)
  /\ isGeneratingPdf' = FALSE
  /\ last' = Did("export", 0, "pdf", "fail", FALSE, {})
  /\ UNCHANGED <<streamVars, isCopied, copiedTimers>>

\* handleCopyToClipboard, the clipboard write resolves.
CopyOk ==
  /\ HasReport
  /\ copiedTimers < MaxTimers
  /\ isCopied' = TRUE
  /\ copiedTimers' = copiedTimers + 1
  /\ last' = Did("export", 0, "clipboard", "ok", FALSE, {})
  /\ UNCHANGED <<streamVars, error, isGeneratingPdf>>

\* setTimeout(() => setIsCopied(false), 2000)
CopiedTimerFire ==
  /\ copiedTimers > 0
  /\ copiedTimers' = copiedTimers - 1
  /\ isCopied' = FALSE
  /\ last' = Did("copied", 0, Null, Null, FALSE, {})
  /\ UNCHANGED <<streamVars, error, isGeneratingPdf>>

\* handleCopyToClipboard, the clipboard write rejects.
CopyFail ==
  /\ HasReport
  /\ error' = "Failed to copy to clipboard"
  /\ last' = Did("export", 0, "clipboard", "fail", FALSE, {})
  /\ UNCHANGED <<streamVars, exportVars>>

\* handleDownloadMarkdown: the file is handed to the browser, no state is set.
DownloadMarkdownOk ==
  /\ HasReport
  /\ last' = Did("export", 0, "markdown", "ok", FALSE, {})
  /\ UNCHANGED <<streamVars, error, exportVars>>

\* handleDownloadMarkdown, the Blob or the link throws.
DownloadMarkdownFail ==
  /\ HasReport
  /\ error' = "Failed to download markdown"
  /\ last' = Did("export", 0, "markdown", "fail", FALSE, {})
  /\ UNCHANGED <<streamVars, exportVars>>

(***************************************************************************)
(* Specifications.                                                         *)
(***************************************************************************)

FailReasons == {"http", "nojob", "network"}

Submission ==
  \/ SubmitDirect
  \/ SubmitAfterComplete
  \/ ResetTimerFire
  \/ ResumeSubmit
  \/ \E call \in Calls : FetchOk(call)
  \/ \E call \in Calls, reason \in FailReasons : FetchFail(call, reason)

Terminal(h) ==
  \/ OnComplete(h, <<"F">>)
  \/ OnUnhandled(h, "complete")
  \/ OnError(h, "boom")
  \/ OnTransportError(h)

\* Spec, the job lifecycle: submissions, responses, the reset, the terminal
\* events, and two events that fill the progressive state.
Next ==
  \/ Submission
  \/ \E h \in 1..MaxJobs :
       \/ Terminal(h)
       \/ OnQueryGenerated(h, "company", 1, "q")
       \/ OnReportChunk(h, <<"a">>)

Spec == Init /\ [][Next]_vars

\* The specifications below follow one job: one submission, one stream.
NoJobYet == Len(sources) = 0 /\ InFlight = 0
OpenOneJob ==
  \/ NoJobYet /\ SubmitDirect
  \/ \E call \in Calls : FetchOk(call)

\* SpecPhase: every kind of event that sets the phase.
PhaseSteps == {"grounding", "curator", "briefing", "editor"}
NextPhase ==
  \/ OpenOneJob
  \/ \E step \in PhaseSteps : OnProgress(1, step)
  \/ OnQueryGenerating(1, "company", 1, "q")
  \/ OnQueryGenerated(1, "company", 1, "q")
  \/ \E type \in {"research_init", "crawl_start"} : OnSearchNotice(1, type)
  \/ OnCuration(1, "company", 1)
  \/ OnEnrichment(1, "company", 1, AbsentNum)
  \/ OnBriefingStart(1, "company")
  \/ OnBriefingComplete(1, "company")
  \/ OnReportCompilation(1)
  \/ OnReportChunk(1, <<"a">>)
  \/ \E type \in {"unknown", "progress"} : OnUnhandled(1, type)
  \/ OnComplete(1, <<"F">>)
  \/ \E s \in Sections : CollapseTimerFire(s)

SpecPhase == Init /\ [][NextPhase]_vars

\* SpecQueries: the query events of two categories, in every order.
\* The text of a query arrives in growing prefixes, then in full.
QueryCategories == {"company", "news"}
PartialTexts == {"mar", "market"}
NextQueries ==
  \/ OpenOneJob
  \/ \E c \in QueryCategories, n \in 1..MaxQueryNumber :
       \/ \E text \in PartialTexts : OnQueryGenerating(1, c, n, text)
       \/ OnQueryGenerated(1, c, n, "market size")

SpecQueries == Init /\ [][NextQueries]_vars

\* SpecReport: the assembly of the report.
Chunks == {<<"H">>, <<"w">>}
Reports == {<<"F">>, <<"H", "w">>}
NextReport ==
  \/ OpenOneJob
  \/ OnReportCompilation(1)
  \/ \E chunk \in Chunks : OnReportChunk(1, chunk)
  \/ \E type \in {"report_chunk", "complete"} : OnUnhandled(1, type)
  \/ OnUndecodable(1)
  \/ \E report \in Reports : OnComplete(1, report)

SpecReport == Init /\ [][NextReport]_vars

\* SpecEnrich: the enrichment counters of two categories.
CountCategories == {"company", "news"}
Counts == {AbsentNum} \cup (0..MaxCount)
NextEnrich ==
  \/ OpenOneJob
  \/ \E c \in CountCategories \cup {Absent}, total \in Counts : OnCuration(1, c, total)
  \/ \E c \in CountCategories \cup {Absent}, enriched \in Counts, total \in Counts :
       OnEnrichment(1, c, enriched, total)
  \/ \E s \in Sections : CollapseTimerFire(s)

SpecEnrich == Init /\ [][NextEnrich]_vars

\* SpecBrief: the briefing flags of one job, the collapse of the section, and
\* the reset made by the submission that follows the completed job.
BriefCategories == Categories \cup {"other", Absent}
NextBrief ==
  \/ OpenOneJob
  \/ \E c \in BriefCategories : OnBriefingStart(1, c) \/ OnBriefingComplete(1, c)
  \/ OnComplete(1, <<"F">>)
  \/ SubmitAfterComplete
  \/ ResetTimerFire
  \/ ResumeSubmit
  \/ \E s \in Sections : CollapseTimerFire(s)

SpecBrief == Init /\ [][NextBrief]_vars

\* SpecRecover: jobs that end in a failure, each followed by a new submission.
NextRecover ==
  \/ SubmitDirect
  \/ \E call \in Calls :
       \/ FetchOk(call)
       \/ \E reason \in FailReasons : FetchFail(call, reason)
  \/ \E h \in 1..MaxJobs :
       \/ OnQueryGenerated(h, "company", 1, "q")
       \/ OnCuration(h, "company", 1)
       \/ OnBriefingComplete(h, "company")
       \/ OnReportChunk(h, <<"a">>)
       \/ OnError(h, "boom")
       \/ OnTransportError(h)
  \/ \E s \in Sections : CollapseTimerFire(s)

SpecRecover == Init /\ [][NextRecover]_vars

\* SpecReset: resetResearch applied to the initial state and to the states of
\* one job.
NextReset ==
  \/ ResetResearch
  \/ ResetTimerFire
  \/ OpenOneJob
  \/ OnQueryGenerating(1, "company", 1, "q")
  \/ OnQueryGenerated(1, "company", 1, "q")
  \/ OnCuration(1, "company", 1)
  \/ OnBriefingComplete(1, "company")
  \/ OnReportChunk(1, <<"a">>)
  \/ OnComplete(1, <<"F">>)
  \/ \E s \in Sections : CollapseTimerFire(s)

SpecReset == Init /\ [][NextReset]_vars

\* SpecCollapse: the collapse timers across a job, its completion and the
\* reset made by the next submission.
NextCollapse ==
  \/ Submission
  \/ \E h \in 1..MaxJobs :
       \/ OnCuration(h, "company", 1)
       \/ OnBriefingStart(h, "company")
       \/ OnComplete(h, <<"F">>)
  \/ \E s \in Sections : CollapseTimerFire(s)

SpecCollapse == Init /\ [][NextCollapse]_vars

\* SpecSteps: progress events over the mapped steps and other identifiers.
Steps == SearchSteps \cup EnrichmentSteps \cup
         {"briefing", "editor", "reporter", "Search", "constructor", "toString"}
NextSteps ==
  \/ OpenOneJob
  \/ \E step \in Steps : OnProgress(1, step)
  \/ OnUnhandled(1, "progress")
  \/ OnReportCompilation(1)
  \/ OnReportChunk(1, <<"a">>)
  \/ OnComplete(1, <<"F">>)

SpecSteps == Init /\ [][NextSteps]_vars

\* SpecExport: the exports of a report that is streaming or complete.
Exports ==
  \/ GeneratePdf
  \/ PdfOk
  \/ \E reason \in {"http", "network"} : PdfFail(reason)
  \/ CopyOk
  \/ CopiedTimerFire
  \/ CopyFail
  \/ DownloadMarkdownOk
  \/ DownloadMarkdownFail

NextExport ==
  \/ OpenOneJob
  \/ OnQueryGenerated(1, "company", 1, "q")
  \/ OnBriefingComplete(1, "company")
  \/ OnReportChunk(1, <<"a">>)
  \/ OnComplete(1, <<"F">>)
  \/ OnError(1, "boom")
  \/ Exports

SpecExport == Init /\ [][NextExport]_vars

(***************************************************************************)
(* The claims.                                                             *)
(***************************************************************************)

Message(type) == last.op = "message" /\ last.type = type

\* C1: within one job the phase never regresses in the order
\* null < search < enrichment < briefing < complete: the phase after every
\* event the message handler processes is at least the phase before it.
C1_PhaseNeverRegresses ==
  [][last'.op = "message" => PhaseRank(currentPhase') >= PhaseRank(currentPhase)]_vars

\* C2: every identity (category, number) is in at most one of the streaming
\* map and the finalized sequence, and at most once in the finalized sequence.
C2_OneRepresentation ==
  \A c \in QueryCategories, n \in 1..MaxQueryNumber :
    /\ QueryKey(c, n) \in DOMAIN streamingQueries => ~InQueries(c, n)
    /\ Cardinality(Occurrences(c, n)) <= 1

\* C3: after a query_generating of an identity that was in neither collection,
\* followed later by the query_generated of the same identity, the identity is
\* exactly once in the finalized sequence and is no key of the streaming map.
OccurrencesOfKey(k) ==
  {i \in 1..Len(queries) : QueryKey(queries[i].category, queries[i].number) = k}
C3_PairFinalizedOnce ==
  (Message("query_generated") /\ last.arg.paired) =>
     /\ Cardinality(OccurrencesOfKey(last.arg.key)) = 1
     /\ last.arg.key \notin DOMAIN streamingQueries

\* C3 witness: a pair was completed while another identity is still streaming.
C3_Witness ==
  /\ Message("query_generated")
  /\ last.arg.paired
  /\ Len(queries) = 1
  /\ DOMAIN streamingQueries # {}

\* C4: every complete event and every error event delivered on an open stream
\* closes that stream, whatever its payload.
C4_TerminalEventCloses ==
  (Message("complete") \/ Message("error")) => ~sources[last.h].open

\* C5: after a complete event is processed the phase is complete and the
\* report is not streaming.
C5_CompleteSetsPhase ==
  (Message("complete") /\ last.arg.report # <<>>) =>
     currentPhase = "complete" /\ ~isReportStreaming

\* C6: at most one stream handle is open.
C6_AtMostOneOpenStream == Cardinality(OpenSources) <= 1

\* C7: a stream that was open when a job was submitted is closed before that
\* job's stream is created, and processes no message once it exists.
C7_SupersededStreamSilent ==
  /\ (last.op = "response" /\ last.type = "ok") =>
        \A g \in 1..sources[last.h].born : ~sources[g].open
  /\ last.op = "message" => \A k \in 1..Len(sources) : sources[k].born < last.h

\* C8: when resetResearch has run to completion the progressive state is the
\* initial one and no stream handle is open.
C8_ResetRestoresAndCloses ==
  last.op = "reset" =>
     /\ queries = <<>>
     /\ streamingQueries = EmptyMap
     /\ enrichmentCounts = UndefinedCounts
     /\ \A c \in DOMAIN briefingStatus : ~briefingStatus[c]
     /\ output = NullOutput
     /\ currentPhase = Null
     /\ OpenSources = {}

\* C9: a stream that is open when resetResearch is invoked is closed by the
\* time the state is cleared.
C9_ClosedBeforeCleared ==
  last.op = "reset" => \A g \in 1..last.arg : ~sources[g].open

\* C10: after report_chunk events and a complete event carrying report R the
\* report buffer is exactly R.
C10_CompleteReplacesReport ==
  (Message("complete") /\ last.arg.report # <<>>) =>
     output = [present |-> TRUE, report |-> last.arg.report]

\* C10 witness: the chunks "H", "w" had been assembled when complete("F") came.
C10_Witness ==
  /\ Message("complete")
  /\ last.arg.old = <<"H", "w">>
  /\ last.arg.report = <<"F">>
  /\ output.report = <<"F">>


\* C11: a curation event carrying category c and total t sets the counter of c
\* to {total: t (0 when absent), enriched: 0}, whatever the counter was.
C11_CurationResetsCounter ==
  (Message("curation") /\ last.arg.category # Absent) =>
     /\ enrichmentCounts.defined
     /\ last.arg.category \in DOMAIN enrichmentCounts.m
     /\ enrichmentCounts.m[last.arg.category] =
          [total |-> IF last.arg.total = AbsentNum THEN 0 ELSE last.arg.total,
           enriched |-> 0]

\* C11 witness: the counter had an advanced enriched count and another total.
C11_Witness ==
  /\ Message("curation")
  /\ last.arg.category \in DOMAIN last.arg.old.m
  /\ last.arg.old.m[last.arg.category] = [total |-> 1, enriched |-> 1]
  /\ last.arg.total = 2
  /\ enrichmentCounts.m[last.arg.category] = [total |-> 2, enriched |-> 0]

\* C12: an enrichment event for a category that has no counter entry leaves
\* the counters mapping as it was and creates no entry, both when the mapping
\* is undefined and when it holds entries of other categories only.
C12_EnrichmentCreatesNoEntry ==
  (Message("enrichment") /\ last.arg.category \notin DOMAIN last.arg.old.m) =>
     enrichmentCounts = last.arg.old

\* C13: within one job the collapse of the briefings section is scheduled
\* once, by the briefing_complete that makes the four flags true; a
\* briefing_complete that arrives when the flags are already all true
\* schedules no collapse.
C13_CollapseScheduledOnce ==
  (Message("briefing_complete") /\ "briefings" \in last.sched) =>
     ~AllBriefingsComplete(last.arg.old)

\* C14: a message whose payload cannot be decoded changes no state and does
\* not close the stream: the state after it is the state before it, and the
\* next well-formed message of the stream is still accepted by its handler.
C14_UndecodableIgnored ==
  /\ [][(last'.op = "message" /\ last'.type = "undecodable") => UNCHANGED appVars]_vars
  /\ [](Message("undecodable") =>
          /\ sources[last.h].open
          /\ ENABLED OnReportCompilation(last.h)
          /\ ENABLED OnComplete(last.h, <<"F">>))

\* C14 witness: the undecodable message arrived in the middle of a streamed
\* report and the stream is still open.
C14_Witness ==
  /\ Message("undecodable")
  /\ sources[last.h].open
  /\ isReportStreaming
  /\ output = [present |-> TRUE, report |-> <<"H">>]

\* C15: an error event records its message and ends the job (isResearching
\* false, its stream closed); queries, streamingQueries, the counters, the
\* briefing flags, the report buffer, the phase and the status stay as they were.
C15_ErrorEventFrame ==
  [][(last'.op = "message" /\ last'.type = "error") =>
        /\ error' = last'.arg
        /\ ~isResearching'
        /\ ~sources'[last'.h].open
        /\ UNCHANGED <<queries, streamingQueries, enrichmentCounts, briefingStatus,
                       output, currentPhase, status>>]_vars

\* C15 witness: the error event arrived after queries, counters, a briefing
\* flag and report text had been received.
C15_Witness ==
  /\ Message("error")
  /\ error = "boom"
  /\ ~isResearching
  /\ ~sources[last.h].open
  /\ queries # <<>>
  /\ enrichmentCounts.defined
  /\ briefingStatus["company"]
  /\ output.present
  /\ currentPhase = "briefing"

\* C16: a transport error records "Connection lost or server error", closes
\* the stream and leaves the engine not researching; the handler opens no
\* stream and starts no request or timer, a closed stream never reopens, and a
\* stream is only ever opened by the response to a submission.
C16_TransportErrorEndsJob ==
  [][/\ last'.op = "onerror" =>
          /\ error' = "Connection lost or server error"
          /\ ~isResearching'
          /\ ~sources'[last'.h].open
          /\ Len(sources') = Len(sources)
          /\ UNCHANGED <<eventSourceRef, callVars>>
     /\ \A h \in 1..Len(sources) : sources'[h].open => sources[h].open
     /\ Len(sources') > Len(sources) =>
          (last'.op = "response" /\ last'.type = "ok" /\ InFlight > 0)]_vars

\* C16 witness: the transport error ended a job that had received events, and
\* nothing is pending that could open a stream.
C16_Witness ==
  /\ last.op = "onerror"
  /\ error = "Connection lost or server error"
  /\ ~isResearching
  /\ OpenSources = {}
  /\ InFlight = 0
  /\ queries # <<>>

\* C17: when the submission fails (response not ok, no job id, or the request
\* throws) no stream is opened, an error message is set and isResearching is
\* false afterwards.
C17_SubmissionFailure ==
  [][(last'.op = "response" /\ last'.type \in FailReasons) =>
        /\ UNCHANGED connVars
        /\ error' = FailureMessage(last'.type)
        /\ error' \notin {Null, Absent}
        /\ ~isResearching']_vars

\* C17 witness: a failed submission with no stream ever opened.
C17_Witness ==
  /\ last.op = "response"
  /\ last.type = "nojob"
  /\ error = "No job ID received"
  /\ ~isResearching
  /\ sources = <<>>
  /\ eventSourceRef = 0

\* The step that ran last was a submission error, an error event or a
\* transport error.
FailureLast ==
  \/ last.op = "response" /\ last.type \in FailReasons
  \/ Message("error")
  \/ last.op = "onerror"

\* C18: in every state that follows a submission error, an error event or a
\* transport error the form accepts a submission (isResearching is false); a
\* submission that then receives a job id opens a new stream, referenced and
\* open, whose events are handled.
C18_RecoverableAfterFailure ==
  /\ FailureLast => FormEnabled
  /\ (FailureLast /\ InFlight + Len(sources) < MaxJobs) =>
        ENABLED (SubmitDirect \/ SubmitAfterComplete)
  /\ (last.op = "response" /\ last.type = "ok") =>
        /\ sources[last.h].open
        /\ eventSourceRef = last.h
        /\ ENABLED OnReportCompilation(last.h)
        /\ ENABLED OnError(last.h, "boom")

\* C18 witness: the third stream is open after an earlier job had received
\* events and failed.
C18_Witness ==
  /\ last.op = "response"
  /\ last.type = "ok"
  /\ last.h = 3
  /\ ~sources[1].open
  /\ ~sources[2].open
  /\ sources[3].open
  /\ eventSourceRef = 3
  /\ isResearching
  /\ error = Null
  /\ queries # <<>>

\* The fields resetResearch assigns have their initial values.
Cleared ==
  /\ status = NullStatus
  /\ output = NullOutput
  /\ error = Null
  /\ isComplete = FALSE
  /\ currentPhase = Null
  /\ queries = <<>>
  /\ streamingQueries = EmptyMap
  /\ enrichmentCounts = UndefinedCounts
  /\ briefingStatus = InitialBriefingStatus
  /\ isQueriesExpanded
  /\ isEnrichmentExpanded
  /\ isBriefingExpanded
  /\ ~hasScrolledToStatus
  /\ ~isReportStreaming
  /\ ~isResetting

\* No submission was ever made: the engine has only been reset.
NeverSubmitted == sources = <<>> /\ fetching = NoFetch /\ ~isResearching

\* C19: resetResearch is idempotent on an idle engine: run in the initial
\* state it leaves every state variable at its initial value, and a second run
\* right after a first one changes nothing.
C19_ResetIdempotent ==
  /\ []((last.op = "reset" /\ NeverSubmitted) =>
           /\ Cleared
           /\ eventSourceRef = 0
           /\ paired = {}
           /\ collapseTimers = NoTimers)
  /\ [][(last.op = "reset" /\ last'.op = "reset") =>
           (Cleared /\ Cleared' /\ UNCHANGED <<isResearching, connVars, fetching, paired,
                                               collapseTimers>>)]_vars

\* C19 witness: resetResearch has run in an engine that never had a job.
C19_Witness ==
  /\ last.op = "reset"
  /\ NeverSubmitted
  /\ timers300 = <<>>
  /\ Cleared

\* C20: a submission that supersedes a prior job resets the progressive
\* state: when the stream of the new job opens, before its first event, the
\* finalized and streaming queries, the counters, the briefing flags, the
\* report buffer and the phase hold nothing left by the prior job.
C20_SubmissionResetsProgress ==
  (last.op = "response" /\ last.type = "ok") =>
     /\ queries = <<>>
     /\ streamingQueries = EmptyMap
     /\ enrichmentCounts = UndefinedCounts
     /\ briefingStatus = InitialBriefingStatus
     /\ output = NullOutput
     /\ currentPhase = Null

\* C21: the scroll to the status line happens at most once per job: once a
\* progress, query_generated, curation or briefing_start event of a stream has
\* scrolled, no later event of that stream scrolls, until a reset.
C21_ScrollsOncePerJob ==
  [][(last'.op = "message" /\ last'.scrolled) => ~hasScrolledToStatus]_vars

\* C22: a reset cancels the pending collapse timers: no collapse scheduled
\* before resetResearch fires once the reset has cleared the state, so the
\* step that follows the reset is never the firing of a collapse timer.
C22_ResetCancelsCollapse ==
  [][last.op = "reset" => last'.op # "collapse"]_vars

\* C23: a well-formed message whose type is none of the known kinds sets the
\* display step to the raw identifier and leaves the phase and the rest of the
\* state unchanged.
C23_UnknownKindShown ==
  Message("unknown") => status.step = "unknown"

\* The phase the mapping table gives to an event kind and its step, from phase p.
TablePhase(type, arg, p) ==
  CASE type = "progress" /\ arg \in SearchSteps -> "search"
    [] type = "progress" /\ arg \in EnrichmentSteps -> "enrichment"
    [] type = "progress" /\ arg = "briefing" -> "briefing"
    [] type \in {"query_generating", "query_generated", "research_init", "crawl_start"} -> "search"
    [] type \in {"curation", "enrichment"} -> "enrichment"
    [] type \in {"briefing_start", "briefing_complete", "report_compilation", "report_chunk"} ->
         "briefing"
    [] OTHER -> p

\* C24: processed from the not-started phase (null), every event yields the
\* phase of the mapping table.
C24_PhaseTableFromNull ==
  [][(currentPhase = Null /\ last'.op = "message") =>
        currentPhase' = TablePhase(last'.type, last'.arg, Null)]_vars

\* C25: between two curation events of a category the enriched count of the
\* category never decreases: an enrichment event that reports a lower value
\* does not lower the stored count.
C25_EnrichedNeverDecreases ==
  (Message("enrichment") /\ last.arg.category \in DOMAIN last.arg.old.m) =>
     enrichmentCounts.m[last.arg.category].enriched >=
       last.arg.old.m[last.arg.category].enriched

\* C26: an enrichment event for a category that has a counter changes only the
\* enriched value of that counter: its total and the counters of the other
\* categories are as before, for every existing total and whether or not the
\* event carries a total.
C26_EnrichmentKeepsTotal ==
  (Message("enrichment") /\ last.arg.category \in DOMAIN last.arg.old.m) =>
     /\ DOMAIN enrichmentCounts.m = DOMAIN last.arg.old.m
     /\ enrichmentCounts.m[last.arg.category].total =
          last.arg.old.m[last.arg.category].total
     /\ \A c \in DOMAIN last.arg.old.m \ {last.arg.category} :
          enrichmentCounts.m[c] = last.arg.old.m[c]

\* C27: a briefing flag that is true stays true under every event; only the
\* reset sets the flags back to false. A briefing_complete event for category
\* c changes no flag other than that of c.
C27_BriefingFlagsMonotonic ==
  [][/\ last'.op # "reset" =>
          \A c \in DOMAIN briefingStatus :
             briefingStatus[c] => (c \in DOMAIN briefingStatus' /\ briefingStatus'[c])
     /\ last'.op = "reset" => briefingStatus' = InitialBriefingStatus
     /\ (last'.op = "message" /\ last'.type = "briefing_complete") =>
          \A d \in DOMAIN briefingStatus \ {last'.arg.category} :
             d \in DOMAIN briefingStatus' /\ briefingStatus'[d] = briefingStatus[d]]_vars

\* C27 witness: a second briefing_complete of a category whose flag was true,
\* with another flag true and the rest false.
C27_Witness ==
  /\ Message("briefing_complete")
  /\ last.arg.category = "company"
  /\ last.arg.old["company"]
  /\ briefingStatus["company"]
  /\ briefingStatus["industry"]
  /\ ~briefingStatus["financial"]
  /\ ~briefingStatus["news"]

\* C28: in every reachable state the briefing map has exactly the keys
\* company, industry, financial and news: no event adds or removes a key.
C28_FourBriefingKeys ==
  DOMAIN briefingStatus = Categories

\* C29: before the complete event of a job the report buffer is the
\* concatenation, in arrival order, of the chunks of the report_chunk events
\* processed since it was last empty: each report_chunk appends its chunk at
\* the end and marks the report as streaming, and no other event before the
\* complete changes the buffer.
C29_ChunksAppendInOrder ==
  [][/\ (last'.op = "message" /\ last'.type = "report_chunk") =>
          /\ CurrentReport(output') = CurrentReport(output) \o last'.arg
          /\ last'.arg # <<>> => (output'.present /\ isReportStreaming')
     /\ (last'.op = "message" /\ last'.type \notin {"report_chunk", "complete"}) =>
          UNCHANGED output]_vars

\* C29 witness: two chunks arrived, H then w, and the buffer reads H w.
C29_Witness ==
  /\ Message("report_chunk")
  /\ last.arg = <<"w">>
  /\ output = [present |-> TRUE, report |-> <<"H", "w">>]
  /\ isReportStreaming

\* C30: the finalized query sequence is append-only between resets: every
\* step but the reset leaves it unchanged or appends one record at its end,
\* the record of the query_generated event being processed, so the earlier
\* sequence is a prefix of the later one.
C30_QueriesAppendOnly ==
  [][last'.op # "reset" =>
        \/ queries' = queries
        \/ /\ Len(queries') = Len(queries) + 1
           /\ SubSeq(queries', 1, Len(queries)) = queries
           /\ last'.op = "message" /\ last'.type = "query_generated"
           /\ QueryKey(queries'[Len(queries')].category, queries'[Len(queries')].number)
                = last'.arg.key]_vars

\* C30 witness: the query of news was finalized before that of company and
\* the sequence holds them in that order.
C30_Witness ==
  /\ Message("query_generated")
  /\ last.arg.key = QueryKey("company", 1)
  /\ Len(queries) = 2
  /\ queries[1].category = "news"
  /\ queries[2].category = "company"

\* The label the fixed table gives to a step identifier.
StepLabel(step) ==
  CASE step \in {"grounding", "financial_analyst", "news_scanner", "industry_analyst",
                 "company_analyst", "collector"} -> "Search"
    [] step \in {"curator", "enricher"} -> "Enriching"
    [] step = "briefing" -> "Briefing"
    [] step = "editor" -> "Finalizing"
    [] OTHER -> step

\* C31: after a progress event with step s the display step is the fixed
\* label of s, and s itself for every identifier outside the table.
C31_StepLabel ==
  (Message("progress") /\ last.arg # Null) => status.step = StepLabel(last.arg)

\* C32: a failing export (PDF, Markdown, clipboard) sets an error and leaves
\* the stream state as it was: queries, streaming queries, counters, briefing
\* flags, report buffer, phase, isResearching and the stream handle.
C32_ExportFailureFrame ==
  [][(last'.op = "export" /\ last'.arg = "fail") =>
        /\ error' \notin {Null, Absent}
        /\ UNCHANGED <<queries, streamingQueries, enrichmentCounts, briefingStatus,
                       output, currentPhase, isResearching, eventSourceRef, sources>>]_vars

\* C32 witness: the PDF export failed while the report was still streaming.
C32_Witness ==
  /\ last.op = "export"
  /\ last.type = "pdf"
  /\ last.arg = "fail"
  /\ error = "Failed to generate PDF"
  /\ isReportStreaming
  /\ isResearching
  /\ sources[1].open
  /\ queries # <<>>
  /\ output.report = <<"a", "a">>

\* C33: when a job is submitted after a completed job, the deferred clearing
\* of resetResearch happens before handleFormSubmit sets the status of the new
\* job and before the new stream is opened: when the reset callback runs, no
\* submission has set isResearching yet and no stream is open.
C33_ResetBeforeNewJob ==
  last.op = "reset" => (~isResearching /\ OpenSources = {})

\* C34: in every reachable state where isComplete is true the report buffer
\* is non-empty and is the report of the complete event, the report is not
\* marked as streaming, isResearching is false and the display step is
\* Complete.
C34_CompleteStateConsistent ==
  isComplete =>
     /\ HasReport
     /\ ~isReportStreaming
     /\ ~isResearching
     /\ status.step = "Complete"
     /\ Message("complete") => output.report = last.arg.report

====
